---- MODULE Spec2Model ----
(***************************************************************************)
(* arkv: upload of a local file or directory tree to the configured SFTP   *)
(* destinations.  main (src/src/main.rs) loads the configuration, running  *)
(* the setup wizard (src/src/setup.rs) when asked to or when there is no   *)
(* configuration file, then spawns one thread per destination              *)
(* running Transferer::transfer (src/src/transfer.rs), joins them all and  *)
(* reports.  The model runs with cli.verbose = false: the verbose branches *)
(* only write diagnostics.  The progress bar is not modelled, except for   *)
(* the unwrap()s evaluated while building its messages.                    *)
(***************************************************************************)
EXTENDS Integers, Sequences, FiniteSets, TLC

(* ------------------------------ bounds -------------------------------- *)

\* Largest local file, in bytes.
MaxFileLen == 3

\* Largest elapsed time a transfer reports (whole seconds).
MaxSecs == 1

\* transfer.rs:12 has BUFFER_SIZE = 262_144; the model scales the buffer so
\* that files shorter than, equal to and longer than one buffer are all
\* enumerable.
BUFFER_SIZE == 2

\* Mode passed to sftp.mkdir (0o755).
MkdirMode == 493

(* ------------------------------- paths -------------------------------- *)
\* std::path::Path as its root flag and its sequence of components.
\* Option<T> is modelled as a sequence: <<>> is None, <<x>> is Some(x).

Abs(c) == [abs |-> TRUE, comps |-> c]
Rel(c) == [abs |-> FALSE, comps |-> c]

\* Components that are not valid UTF-8 (OsStr::to_str gives None).
NonUtf8 == {"xFF"}

Front(s) == SubSeq(s, 1, Len(s) - 1)
Last(s) == s[Len(s)]

\* Path::parent: None for the root and for the empty path.
Parent(p) ==
  IF p.comps = <<>> THEN <<>>
  ELSE <<[abs |-> p.abs, comps |-> Front(p.comps)]>>

\* Path::file_name: the last component when it is a normal one; None when
\* the path ends in ".." or is ".", or has no component.
FileName(p) ==
  IF p.comps = <<>> \/ Last(p.comps) \in {"..", "."} THEN <<>>
  ELSE <<Rel(<<Last(p.comps)>>)>>

\* PathBuf::join: an absolute argument replaces the receiver.
Join(p, q) ==
  IF q.abs THEN q ELSE [abs |-> p.abs, comps |-> p.comps \o q.comps]

IsPrefix(s, t) == Len(s) <= Len(t) /\ SubSeq(t, 1, Len(s)) = s

\* Path::strip_prefix: Err (None) when base is not a prefix of p.
StripPrefix(p, base) ==
  IF p.abs = base.abs /\ IsPrefix(base.comps, p.comps)
  THEN <<Rel(SubSeq(p.comps, Len(base.comps) + 1, Len(p.comps)))>>
  ELSE <<>>

\* Path::to_str: None when the path is not valid UTF-8.
ToStr(p) ==
  IF \E k \in 1..Len(p.comps) : p.comps[k] \in NonUtf8 THEN <<>> ELSE <<p>>

(* ------------------------------- inputs ------------------------------- *)

Root == Abs(<<>>)
RBase == Abs(<<"r">>)

\* config::Destination (config.rs:7-14).  port and username never decide a
\* branch and are left out; password is the Option<String>.
Destination(n, h, rp, pw) ==
  [name |-> n, host |-> h, remote_path |-> rp, password |-> pw]

DestA == Destination("A", "h1", RBase, <<"pw">>)
DestB == Destination("B", "h2", RBase, <<>>)
\* Same server and same remote base path as DestA.
DestA2 == Destination("A2", "h1", RBase, <<>>)

\* A remote base path relative to the login directory.
DestR == Destination("R", "h2", Rel(<<"up">>), <<>>)

Hosts == {"h1", "h2"}

\* config.ssh_key_path (config.rs:18), the key of every destination.
SshKeyPath == Abs(<<"key">>)

\* config.destinations as loaded by Config::load.
Configs == { <<>>, <<DestA>>, <<DestA, DestB>>, <<DestA, DestA2>>, <<DestR>> }

\* What Config::load finds (config.rs:32-43): no home directory, no file
\* at ~/.config/arkv/config.toml, a file that cannot be read or parsed, or
\* a configuration.
ConfigFile(st, ds) == [state |-> st, destinations |-> ds]

ConfigFiles ==
  { ConfigFile("ok", c) : c \in Configs }
  \cup { ConfigFile(st, <<>>) :
           st \in {"no_home", "absent", "unreadable", "unparsable"} }

\* What the user answers to the prompts of the setup wizard.  choice: the
\* entry of the menu of setup.rs:11-23 (0 add, 1 edit, 2 delete, 3 start
\* fresh, 4 cancel); confirm: the answer to the Confirm of setup.rs:30 or
\* 146; selection: the destination picked at setup.rs:111 or 138;
\* key_exists: whether the key path entered at setup.rs:168 exists; dests:
\* the destinations entered through setup_destination, in order (the
\* whole of them by setup_fresh, which is told "add another" in between;
\* the first by add and edit).
Answer(ch, cf, sel, ke, ds) ==
  [choice |-> ch, confirm |-> cf, selection |-> sel, key_exists |-> ke,
   dests |-> ds]

\* The destinations a user enters.
EnteredDests == { <<DestB>>, <<DestB, DestA>> }

NoAnswers == Answer(4, FALSE, 1, TRUE, <<DestB>>)

LFile(p, d) == [p |-> p, data |-> d]

\* The bytes of a local file of n bytes: all different, so that a dropped,
\* repeated or reordered chunk shows.
Bytes(n) == [k \in 1..n |-> k]

\* The local filesystem and the path given on the command line.
\* unreadable: the directories read_dir fails on (permission denied).
World(p, fs, ds) == [path |-> p, files |-> fs, dirs |-> ds, unreadable |-> {}]

\* The same filesystem with read_dir failing on the directories us.
Unreadable(w, us) == [w EXCEPT !.unreadable = us]

PF == Rel(<<"f">>)
PD == Rel(<<"d">>)
PUp == Rel(<<"..">>)
PCur == Rel(<<".">>)

Worlds ==
  \* the upload root does not exist
  { World(Rel(<<"nope">>), {}, {}) }
  \* a single file of every length up to MaxFileLen
  \cup { World(PF, {LFile(PF, Bytes(n))}, {}) : n \in 0..MaxFileLen }
  \* a directory d with d/a, d/sub/b and the empty directory d/e
  \cup { World(PD, {LFile(Rel(<<"d", "a">>), Bytes(2)),
                    LFile(Rel(<<"d", "sub", "b">>), Bytes(1))},
               {PD, Rel(<<"d", "sub">>), Rel(<<"d", "e">>)}) }
  \* a directory d with two files in the same subdirectory and the
  \* empty directory d/e
  \cup { World(PD, {LFile(Rel(<<"d", "sub", "b">>), Bytes(1)),
                    LFile(Rel(<<"d", "sub", "c">>), Bytes(0))},
               {PD, Rel(<<"d", "sub">>), Rel(<<"d", "e">>)}) }
  \* a directory holding no regular file
  \cup { World(PD, {}, {PD, Rel(<<"d", "e">>)}) }
  \* a root without a file name ("..")
  \cup { World(PUp, {LFile(Rel(<<"..", "a">>), Bytes(1))}, {PUp}) }
  \* the current directory (".") as the root
  \cup { World(PCur, {LFile(Rel(<<".", "a">>), Bytes(1))}, {PCur}) }
  \* a file whose name is not valid UTF-8
  \cup { World(PD, {LFile(Rel(<<"d", "xFF">>), Bytes(1))}, {PD}) }
  \* a directory d with d/a and the file d/sub/b in an unreadable d/sub
  \cup { Unreadable(World(PD, {LFile(Rel(<<"d", "a">>), Bytes(1)),
                               LFile(Rel(<<"d", "sub", "b">>), Bytes(1))},
                          {PD, Rel(<<"d", "sub">>)}),
                    {Rel(<<"d", "sub">>)}) }
  \* the root d/sub with d/sub/b and d/sub/x/c, where neither d, above
  \* the root, nor d/sub/x can be read
  \cup { Unreadable(World(Rel(<<"d", "sub">>),
                          {LFile(Rel(<<"d", "sub", "b">>), Bytes(1)),
                           LFile(Rel(<<"d", "sub", "x", "c">>), Bytes(1))},
                          {PD, Rel(<<"d", "sub">>), Rel(<<"d", "sub", "x">>)}),
                    {PD, Rel(<<"d", "sub", "x">>)}) }

\* The longest file every read delivers whole: a read returns at least one
\* byte, so only a file of two bytes or more can come in several chunks.
OneReadLen == 1

\* The shortest file whose chunk the server can take in two calls of
\* write.
TwoCallLen == 2

\* The worlds a configuration is run in.  The copy loop over several
\* chunks is the matter of one thread, which shares nothing but the
\* namespace of the server with the other threads, and is explored with
\* one destination.  With several destinations the files of a tree are
\* delivered by one read, and a single file has up to TwoCallLen bytes,
\* so that the other threads run between the write calls of one chunk.
\* Directory trees are uploaded under every configuration.
WorldsFor(c) ==
  IF Len(c) > 1
  THEN { w \in Worlds :
           \A f \in w.files :
             \/ Len(f.data) <= OneReadLen
             \/ w.path = f.p /\ Len(f.data) <= TwoCallLen }
  ELSE Worlds

\* The namespace of an SFTP server: its directories, its other entries, and
\* the paths at which the server refuses mkdir and create (permissions).
\* nostat: the paths the server answers stat for with an error although
\* something is there.
Namespace(ds, fs, dn) ==
  [dirs |-> ds, files |-> fs, denied |-> dn, nostat |-> {}]

\* The same namespace on a server whose stat fails for the paths ps.
NoStat(ns, ps) == [ns EXCEPT !.nostat = ps]

RD == Abs(<<"r", "d">>)

Namespaces ==
  { Namespace({Root}, {}, {}),
    Namespace({Root, RBase}, {}, {}),
    Namespace({Root, RBase, RD}, {}, {}),
    Namespace({Root}, {RBase}, {}),
    Namespace({Root, RBase}, {RD}, {}),
    Namespace({Root, RBase}, {}, {RD}),
    Namespace({Root, RBase}, {}, {Abs(<<"r", "d", "sub">>)}) }

\* The directory relative remote paths are resolved against: the empty
\* path.  stat("") is answered by some servers and is an error on others
\* (stat(2) of the empty string is ENOENT).
Home == Rel(<<>>)
RUp == Rel(<<"up">>)

\* The namespaces met by a destination with a relative remote_path.
RelNamespaces ==
  { Namespace({Home}, {}, {}),
    Namespace({Home, RUp}, {}, {}),
    NoStat(Namespace({Home}, {}, {}), {Home}),
    NoStat(Namespace({Home, RUp}, {}, {}), {Home}) }

\* The namespaces a configuration is run against.
NamespacesFor(c) ==
  IF \E k \in 1..Len(c) : ~c[k].remote_path.abs
  THEN RelNamespaces ELSE Namespaces

(* ------------------------------- state -------------------------------- *)

VARIABLES
  config_file,   \* the configuration file, as Config::load finds it
  cli,           \* Cli: path (an Option), setup, interactive
  tty,           \* the prompts of dialoguer have a terminal
  answers,       \* what the user answers to the setup wizard
  config,        \* main's config.destinations, once loaded
  world,         \* the local filesystem and in it the path of cli.path
  remote,        \* host -> namespace of that server
  mpc,           \* where main is
  destinations,  \* main's `destinations`
  handles,       \* number of threads spawned so far
  joined,        \* number of handles joined so far
  errors,        \* main's `errors`
  all_stats,     \* main's `all_stats`
  stdout,
  stderr,
  exit_code,     \* None while the process runs
  unit,          \* thread -> state of its Transferer::transfer
  ops,           \* thread -> the network and SFTP requests it has issued,
                 \* in order, with an "ensured" mark wherever a call of
                 \* ensure_remote_dir by upload_file returned Ok
  uploaded       \* thread -> the upload_file calls that returned Ok

vars == <<config_file, cli, tty, answers, config, world, remote, mpc,
          destinations, handles, joined, errors, all_stats, stdout, stderr,
          exit_code, unit, ops, uploaded>>

\* What the process is started with, and what only the first steps of main
\* change (the configuration).
started == <<cli, tty, answers, world>>
inputs == <<config_file, config, cli, tty, answers, world>>
driver == <<mpc, destinations, handles, joined, errors, all_stats, stdout,
            stderr, exit_code>>

\* A line of output: its fixed text and the values formatted into it.
Line(text, dest, arg, stats) ==
  [text |-> text, dest |-> dest, arg |-> arg, stats |-> stats]

\* anyhow::Error as Display prints it: the outermost context and the value
\* formatted into it, if any.
Error(ctx, arg) == [ctx |-> ctx, arg |-> arg]

TransferStats(b, d) == [bytes_transferred |-> b, duration_secs |-> d]

NoStats == TransferStats(0, 0)
NoError == Error("", <<>>)

\* What a thread hands to join(): Ok(Ok((name, stats))), Ok(Err(e)), or
\* Err(_) for a panic.
ResOk(n, st) == [kind |-> "ok", name |-> n, stats |-> st, err |-> NoError]
ResErr(e) == [kind |-> "err", name |-> "", stats |-> NoStats, err |-> e]
ResPanic == [kind |-> "panic", name |-> "", stats |-> NoStats, err |-> NoError]

\* The locals of one thread.  files: the entries transfer has still to
\* visit; cur: the upload_file call in progress; estack: the frames of
\* ensure_remote_dir, innermost first; pos, buf, n, wr: upload_file's read
\* offset, the chunk read, total_bytes, and the bytes written to the remote
\* file handle; total_bytes: transfer's counter; session: the Session
\* connect returned, if any; wcalls: the calls of write made so far by
\* the write_all of the chunk in buf.
NoTask == [local |-> Rel(<<>>), remote |-> Rel(<<>>), data |-> <<>>]
Idle ==
  [pc |-> "unborn", session |-> <<>>, single |-> FALSE, files |-> <<>>,
   cur |-> NoTask,
   estack |-> <<>>, pos |-> 0, buf |-> <<>>, n |-> 0, wr |-> <<>>,
   wcalls |-> <<>>,
   total_bytes |-> 0, result |-> <<>>]

\* The run gets as far as the upload with the configuration of the file.
Uploads(f, c) == f.state = "ok" /\ ~c.setup /\ c.path # <<>>

\* The run calls run_setup.
RunsSetup(f, c) == c.setup \/ f.state = "absent"

\* A single file of one byte: the world of the runs in which the upload
\* is not reached, or is reached through the setup wizard.
QuietWorld == World(PF, {LFile(PF, Bytes(1))}, {})
QuietNamespace == Namespace({Root, RBase}, {}, {})

\* The answers that make a difference to a run.
Answers(f, c) ==
  IF ~RunsSetup(f, c) \/ f.state \in {"no_home", "unreadable", "unparsable"}
  THEN { NoAnswers }
  ELSE IF f.state = "absent"
  THEN { Answer(4, FALSE, 1, ke, ds) : ke \in BOOLEAN, ds \in EnteredDests }
  ELSE { Answer(ch, cf, sel, ke, ds) :
           ch \in 0..4, cf \in BOOLEAN, ke \in BOOLEAN,
           sel \in 1..(IF f.destinations = <<>> THEN 1 ELSE Len(f.destinations)),
           ds \in EnteredDests }

\* The program is started with a configuration file, a command line, a
\* terminal or none, a local filesystem and the servers.  What a run never
\* looks at is not varied: the filesystem and the servers when the upload
\* is not reached, the terminal when nothing is asked, the answers when
\* the wizard does not run.
Init ==
  /\ config_file \in ConfigFiles
  /\ \E given, st, it \in BOOLEAN :
       \E w \in Worlds :
         /\ world = w
         /\ cli = [path |-> IF given THEN <<w.path>> ELSE <<>>,
                   setup |-> st, interactive |-> it]
  /\ world \in (IF Uploads(config_file, cli)
                THEN WorldsFor(config_file.destinations) ELSE {QuietWorld})
  /\ tty \in (IF RunsSetup(config_file, cli)
                 \/ (Uploads(config_file, cli) /\ cli.interactive)
              THEN BOOLEAN ELSE {TRUE})
  /\ answers \in Answers(config_file, cli)
  /\ config = <<>>
  /\ \E ns \in (IF Uploads(config_file, cli)
                THEN NamespacesFor(config_file.destinations)
                ELSE {QuietNamespace}) :
       remote = [h \in Hosts |-> ns]
  /\ mpc = "main"
  /\ destinations = <<>>
  /\ handles = 0
  /\ joined = 0
  /\ errors = <<>>
  /\ all_stats = <<>>
  /\ stdout = <<>>
  /\ stderr = <<>>
  /\ exit_code = <<>>
  /\ unit = <<>>
  /\ ops = <<>>
  /\ uploaded = <<>>

(* -------------------------------- main -------------------------------- *)

\* A line of stdout without a value in it.
Text(t) == Line(t, <<>>, <<>>, <<>>)

\* main returns Err(e): the runtime prints "Error: " and the error on
\* stderr and the exit status is 1.
MainError(e) == Line("Error: " \o e.ctx, <<>>, e.arg, <<>>)

\* The error of a prompt of dialoguer that has no terminal.
NotATerminal == Error("IO error: not a terminal", <<>>)

\* config.rs:32-43: what Config::load returns: an error, None, or the
\* configuration.
LoadError(f) ==
  CASE f.state = "no_home" -> <<Error("Could not find home directory", <<>>)>>
    [] f.state = "unreadable" -> <<Error("Failed to read config file", <<>>)>>
    [] f.state = "unparsable" -> <<Error("Failed to parse config file", <<>>)>>
    [] OTHER -> <<>>

\* config.rs:45-58: how a call of Config::save ends, and its error.
SaveOutcomes == {"ok", "no_dir", "no_write"}

SaveError(sv) ==
  IF sv = "no_dir" THEN Error("Failed to create config directory", <<>>)
  ELSE Error("Failed to write config file", <<>>)

\* What a call of run_setup leaves: the lines it printed, the
\* configuration file, and the configuration or the error it returned.
SetupOk(out, f, ds) ==
  [stdout |-> out, file |-> f, ok |-> TRUE, config |-> ds, err |-> NoError]
SetupErr(out, f, e) ==
  [stdout |-> out, file |-> f, ok |-> FALSE, config |-> <<>>, err |-> e]

\* config.save() followed by the line that reports it (setup.rs:82-84,
\* 95-96, 122-123, 153-154).
Saved(out, f, ds, sv, done) ==
  IF sv = "ok"
  THEN SetupOk(out \o <<done>>, ConfigFile("ok", ds), ds)
  ELSE SetupErr(out, f, SaveError(sv))

\* setup.rs:61-75: the lines of the loop that asks for n destinations.
FreshLoopLines(n) ==
  [k \in 1..(2 * n - 1) |->
     IF k % 2 = 1 THEN Text("Setting up a remote destination...")
     ELSE Text("")]

\* setup.rs:52-87 and 162-179: setup_fresh.
SetupFresh(out, f, t, a, sv) ==
  LET out1 == out \o <<Text("Welcome to arkv! Let's get you set up.")>>
  IN IF ~t THEN SetupErr(out1, f, NotATerminal)
     ELSE IF ~a.key_exists
     THEN SetupErr(out1, f, Error("SSH key not found at", <<SshKeyPath>>))
     ELSE Saved(out1 \o <<Line("SSH key configured", <<>>, <<SshKeyPath>>, <<>>)>>
                     \o FreshLoopLines(Len(a.dests)),
                f, a.dests, sv,
                Text("Configuration saved! You're ready to use arkv."))

\* setup.rs:89-99: add_destination.
AddDestination(out, f, a, sv) ==
  Saved(out \o <<Text("Adding a new destination...")>>,
        f, Append(f.destinations, a.dests[1]), sv, Text("Destination added!"))

\* setup.rs:101-126: edit_destination.
EditDestination(out, f, a, sv) ==
  IF f.destinations = <<>>
  THEN SetupOk(out \o <<Text("No destinations configured.")>>, f, f.destinations)
  ELSE Saved(out \o <<Line("Editing", <<f.destinations[a.selection].name>>,
                           <<>>, <<>>)>>,
             f, [f.destinations EXCEPT ![a.selection] = a.dests[1]], sv,
             Text("Destination updated!"))

\* Vec::remove.
Remove(seq, k) == SubSeq(seq, 1, k - 1) \o SubSeq(seq, k + 1, Len(seq))

\* setup.rs:128-160: delete_destination.
DeleteDestination(out, f, a, sv) ==
  IF f.destinations = <<>>
  THEN SetupOk(out \o <<Text("No destinations configured.")>>, f, f.destinations)
  ELSE IF a.confirm
  THEN Saved(out, f, Remove(f.destinations, a.selection), sv,
             Line("Destination deleted!", <<f.destinations[a.selection].name>>,
                  <<>>, <<>>))
  ELSE SetupOk(out \o <<Text("Cancelled.")>>, f, f.destinations)

\* setup.rs:6-50: run_setup with the configuration file f, the terminal t,
\* the answers a and the outcome sv of Config::save, should it be called.
RunSetup(f, t, a, sv) ==
  IF LoadError(f) # <<>> THEN SetupErr(<<>>, f, LoadError(f)[1])
  ELSE IF f.state = "absent" THEN SetupFresh(<<>>, f, t, a, sv)
  ELSE
    LET out == <<Text("Configuration already exists!")>>
    IN IF ~t THEN SetupErr(out, f, NotATerminal)
       ELSE CASE a.choice = 0 -> AddDestination(out, f, a, sv)
              [] a.choice = 1 -> EditDestination(out, f, a, sv)
              [] a.choice = 2 -> DeleteDestination(out, f, a, sv)
              [] a.choice = 3 ->
                   IF a.confirm THEN SetupFresh(out, f, t, a, sv)
                   ELSE SetupOk(out \o <<Text("Cancelled.")>>, f, f.destinations)
              [] OTHER -> SetupOk(out \o <<Text("Cancelled.")>>, f, f.destinations)

\* main.rs:31-34: --setup runs the wizard and nothing else.
MainSetup ==
  /\ mpc = "main"
  /\ cli.setup
  /\ \E sv \in SaveOutcomes :
       LET r == RunSetup(config_file, tty, answers, sv)
       IN /\ stdout' = stdout \o r.stdout
          /\ config_file' = r.file
          /\ IF r.ok
             THEN /\ exit_code' = <<0>>
                  /\ UNCHANGED stderr
             ELSE /\ exit_code' = <<1>>
                  /\ stderr' = Append(stderr, MainError(r.err))
  /\ mpc' = "exited"
  /\ UNCHANGED <<started, config, remote, destinations, handles, joined,
                 errors, all_stats, unit, ops, uploaded>>

\* main.rs:36-42: the configuration is loaded; when there is no file the
\* wizard runs first and its configuration is the one used.
MainLoad ==
  /\ mpc = "main"
  /\ ~cli.setup
  /\ IF LoadError(config_file) # <<>>
     THEN /\ stderr' = Append(stderr, MainError(LoadError(config_file)[1]))
          /\ exit_code' = <<1>>
          /\ mpc' = "exited"
          /\ UNCHANGED <<config_file, config, stdout>>
     ELSE IF config_file.state = "absent"
     THEN \E sv \in SaveOutcomes :
            LET r == RunSetup(config_file, tty, answers, sv)
            IN /\ stdout' = stdout
                    \o <<Text("No configuration found. Running setup...")>>
                    \o r.stdout
               /\ config_file' = r.file
               /\ IF r.ok
                  THEN /\ config' = r.config
                       /\ mpc' = "config"
                       /\ UNCHANGED <<stderr, exit_code>>
                  ELSE /\ stderr' = Append(stderr, MainError(r.err))
                       /\ exit_code' = <<1>>
                       /\ mpc' = "exited"
                       /\ UNCHANGED config
     ELSE /\ config' = config_file.destinations
          /\ mpc' = "config"
          /\ UNCHANGED <<config_file, stdout, stderr, exit_code>>
  /\ UNCHANGED <<started, remote, destinations, handles, joined, errors,
                 all_stats, unit, ops, uploaded>>

\* main.rs:44-71 and 119-121: no destination configured is an error;
\* without a path the usage is printed; otherwise the destinations are the
\* selected one (--interactive, when the prompt has a terminal) or all of
\* them.
Main ==
  /\ mpc = "config"
  /\ IF config = <<>>
     THEN /\ stderr' = Append(stderr,
                 Line("Error: No destinations configured", <<>>, <<>>, <<>>))
          /\ exit_code' = <<1>>
          /\ mpc' = "exited"
          /\ UNCHANGED <<destinations, stdout, unit, ops, uploaded>>
     ELSE IF cli.path = <<>>
     THEN /\ stdout' = Append(stdout, Text("arkv - Archive files to remote servers"))
          /\ exit_code' = <<0>>
          /\ mpc' = "exited"
          /\ UNCHANGED <<destinations, stderr, unit, ops, uploaded>>
     ELSE IF cli.interactive /\ ~tty
     THEN /\ stderr' = Append(stderr, MainError(NotATerminal))
          /\ exit_code' = <<1>>
          /\ mpc' = "exited"
          /\ UNCHANGED <<destinations, stdout, unit, ops, uploaded>>
     ELSE /\ \E sel \in 1..Len(config) :
               destinations' = IF cli.interactive THEN <<config[sel]>> ELSE config
          /\ stdout' = Append(stdout,
               IF Len(destinations') > 1
               THEN Line("Archiving to destinations", <<>>, <<>>, <<>>)
               ELSE Line("Archiving to", <<destinations'[1].name>>, <<>>, <<>>))
          /\ unit' = [i \in 1..Len(destinations') |-> Idle]
          /\ ops' = [i \in 1..Len(destinations') |-> <<>>]
          /\ uploaded' = [i \in 1..Len(destinations') |-> <<>>]
          /\ mpc' = "spawn"
          /\ UNCHANGED <<stderr, exit_code>>
  /\ UNCHANGED <<inputs, remote, handles, joined, errors, all_stats>>

\* main.rs:74-85: one thread per destination; collect() drives the map to
\* its end before the first join.
Spawn ==
  /\ mpc = "spawn"
  /\ IF handles < Len(destinations)
     THEN /\ handles' = handles + 1
          /\ unit' = [unit EXCEPT ![handles + 1].pc = "t_exists"]
          /\ mpc' = mpc
     ELSE /\ mpc' = "join"
          /\ UNCHANGED <<handles, unit>>
  /\ UNCHANGED <<inputs, remote, destinations, joined, errors, all_stats,
                 stdout, stderr, exit_code, ops, uploaded>>

\* A match that has no arm for a panicked thread.
JoinResultDropPanic(r) ==
  CASE r.kind = "ok" ->
         /\ stdout' = Append(stdout,
                Line("Completed upload to", <<r.name>>, <<>>, <<>>))
         /\ all_stats' = Append(all_stats, [name |-> r.name, stats |-> r.stats])
         /\ UNCHANGED errors
    [] r.kind = "err" ->
         /\ errors' = Append(errors, r.err)
         /\ UNCHANGED <<stdout, all_stats>>
    [] OTHER -> UNCHANGED <<errors, stdout, all_stats>>

\* main.rs:90-99: join the next handle (blocks until that thread is over)
\* and file its result.
JoinResult(r) ==
  CASE r.kind = "ok" ->
         /\ stdout' = Append(stdout,
                Line("Completed upload to", <<r.name>>, <<>>, <<>>))
         /\ all_stats' = Append(all_stats, [name |-> r.name, stats |-> r.stats])
         /\ UNCHANGED errors
    [] r.kind = "err" ->
         /\ errors' = Append(errors, r.err)
         /\ UNCHANGED <<stdout, all_stats>>
    [] OTHER ->
         /\ errors' = Append(errors, Error("Thread panicked", <<>>))
         /\ UNCHANGED <<stdout, all_stats>>

\* A join loop that gives up at the first failed thread.
JoinHandleShortCircuit ==
  /\ mpc = "join"
  /\ IF joined < handles
     THEN /\ unit[joined + 1].result # <<>>
          /\ JoinResult(unit[joined + 1].result[1])
          /\ joined' = joined + 1
          /\ mpc' = IF unit[joined + 1].result[1].kind = "ok" THEN mpc ELSE "report"
     ELSE /\ mpc' = "report"
          /\ UNCHANGED <<joined, errors, all_stats, stdout>>
  /\ UNCHANGED <<inputs, remote, destinations, handles, stderr, exit_code,
                 unit, ops, uploaded>>

JoinHandle ==
  /\ mpc = "join"
  /\ IF joined < handles
     THEN /\ unit[joined + 1].result # <<>>
          /\ JoinResult(unit[joined + 1].result[1])
          /\ joined' = joined + 1
          /\ mpc' = mpc
     ELSE /\ mpc' = "report"
          /\ UNCHANGED <<joined, errors, all_stats, stdout>>
  /\ UNCHANGED <<inputs, remote, destinations, handles, stderr, exit_code,
                 unit, ops, uploaded>>

ErrorLines(es) == [k \in 1..Len(es) |-> Line(es[k].ctx, <<>>, es[k].arg, <<>>)]
StatsLines(ss) ==
  [k \in 1..Len(ss) |-> Line("stats", <<ss[k].name>>, <<>>, <<ss[k].stats>>)]

\* A report that fails only when no destination succeeded.
ReportLenient ==
  /\ mpc = "report"
  /\ IF errors # <<>> /\ all_stats = <<>>
     THEN /\ stderr' = stderr
                \o <<Line("Errors occurred:", <<>>, <<>>, <<>>)>>
                \o ErrorLines(errors)
          /\ exit_code' = <<1>>
          /\ UNCHANGED stdout
     ELSE /\ stdout' = stdout \o <<Line("", <<>>, <<>>, <<>>)>>
                \o StatsLines(all_stats)
                \o <<Line("Done!", <<>>, <<>>, <<>>)>>
          /\ exit_code' = <<0>>
          /\ UNCHANGED stderr
  /\ mpc' = "exited"
  /\ UNCHANGED <<inputs, remote, destinations, handles, joined, errors,
                 all_stats, unit, ops, uploaded>>

\* A report that prints the statistics before it looks at the errors.
ReportStatsAlways ==
  /\ mpc = "report"
  /\ stdout' = stdout \o <<Line("", <<>>, <<>>, <<>>)>> \o StatsLines(all_stats)
                \o (IF errors = <<>> THEN <<Line("Done!", <<>>, <<>>, <<>>)>>
                    ELSE <<>>)
  /\ IF errors # <<>>
     THEN /\ stderr' = stderr
                \o <<Line("Errors occurred:", <<>>, <<>>, <<>>)>>
                \o ErrorLines(errors)
          /\ exit_code' = <<1>>
     ELSE /\ exit_code' = <<0>>
          /\ UNCHANGED stderr
  /\ mpc' = "exited"
  /\ UNCHANGED <<inputs, remote, destinations, handles, joined, errors,
                 all_stats, unit, ops, uploaded>>

\* main.rs:101-124: any error: print them all and exit(1); otherwise print
\* the statistics of every destination and return Ok(()).
Report ==
  /\ mpc = "report"
  /\ IF errors # <<>>
     THEN /\ stderr' = stderr
                \o <<Line("Errors occurred:", <<>>, <<>>, <<>>)>>
                \o ErrorLines(errors)
          /\ exit_code' = <<1>>
          /\ UNCHANGED stdout
     ELSE /\ stdout' = stdout \o <<Line("", <<>>, <<>>, <<>>)>>
                \o StatsLines(all_stats)
                \o <<Line("Done!", <<>>, <<>>, <<>>)>>
          /\ exit_code' = <<0>>
          /\ UNCHANGED stderr
  /\ mpc' = "exited"
  /\ UNCHANGED <<inputs, remote, destinations, handles, joined, errors,
                 all_stats, unit, ops, uploaded>>

(* ------------------------- the SFTP server ---------------------------- *)

\* sftp.stat(p).is_ok(): something, of any kind, is at p, and the server
\* answers for it.
StatOk(ns, p) == p \in ns.dirs \cup ns.files /\ p \notin ns.nostat

\* sftp.mkdir(p, 0o755) succeeds: nothing is at p, its parent is a
\* directory, and the server allows it.
MkdirOk(ns, p) ==
  /\ p.comps # <<>>
  /\ p \notin ns.dirs \cup ns.files
  /\ Parent(p)[1] \in ns.dirs
  /\ p \notin ns.denied

\* sftp.create(p) succeeds (creating or truncating): the parent is a
\* directory, p is not one, and the server allows it.
CreateOk(ns, p) ==
  /\ p.comps # <<>>
  /\ Parent(p)[1] \in ns.dirs
  /\ p \notin ns.dirs
  /\ p \notin ns.denied

\* A request sent to the server of a destination, as logged in ops.
Op(op, arg, mode) == [op |-> op, arg |-> arg, mode |-> mode]

(* ------------------------ Transferer::transfer ------------------------ *)

Dest(i) == destinations[i]
Srv(i) == remote[Dest(i).host]

Exists(p) == p \in world.dirs \/ \E f \in world.files : f.p = p
IsFile(p) == \E f \in world.files : f.p = p
FileAt(p) == CHOOSE f \in world.files : f.p = p

Min(a, b) == IF a < b THEN a ELSE b

\* The thread is over and its locals are dropped; what is left of it is
\* the value join() will return.
Finished(r) == [Idle EXCEPT !.pc = "finished", !.result = <<r>>]

\* transfer returned Err(e) (a `?` or a bail!), or a thread panicked.  The
\* message the panic hook of the runtime writes is not part of the output
\* modelled here; main's own report of a panic is the entry JoinResult adds.
Failed(u, e) == Finished(ResErr(e))
Panicked(u) == Finished(ResPanic)

Logged(i, entries) == ops' = [ops EXCEPT ![i] = @ \o entries]

\* A transfer that connects without looking at the upload root.
TransferExistsUnchecked(i) ==
  /\ unit[i].pc = "t_exists"
  /\ unit' = [unit EXCEPT ![i].pc = "connect"]
  /\ UNCHANGED <<inputs, remote, driver, ops, uploaded>>

\* transfer.rs:30-35: the upload root must exist before anything else.
TransferExists(i) ==
  /\ unit[i].pc = "t_exists"
  /\ unit' = [unit EXCEPT ![i] =
       IF ~Exists(world.path)
       THEN Failed(@, Error("Path does not exist", <<world.path>>))
       ELSE [@ EXCEPT !.pc = "connect"]]
  /\ UNCHANGED <<inputs, remote, driver, ops, uploaded>>

\* transfer.rs:144-160: the one authentication call made for a destination.
AuthMethod(d) ==
  IF d.password # <<>> THEN "userauth_password" ELSE "userauth_pubkey_file"

\* transfer.rs:148 and 154-155: the authentication request; the public-key
\* call carries config.ssh_key_path.
AuthCall(d) ==
  Op(AuthMethod(d), IF d.password # <<>> THEN <<>> ELSE <<SshKeyPath>>, 0)

\* An authentication that falls back to the key when the password is
\* rejected.
AuthOpsFallback(d, ok) ==
  <<AuthCall(d)>>
  \o (IF ~ok /\ d.password # <<>>
      THEN <<Op("userauth_pubkey_file", <<SshKeyPath>>, 0)>> ELSE <<>>)

\* transfer.rs:144-160: the requests of the authentication step, whether
\* the call returned Ok or not.
AuthOps(d, ok) == <<AuthCall(d)>>

\* The error connect returns when the step named by outcome fails.
ConnectError(d, outcome) ==
  CASE outcome = "refused" -> Error("Failed to connect to server", <<>>)
    [] outcome = "nodelay" -> Error("Failed to set TCP_NODELAY", <<>>)
    [] outcome = "no_session" -> Error("Failed to create SSH session", <<>>)
    [] outcome = "no_handshake" -> Error("SSH handshake failed", <<>>)
    [] outcome = "auth_error" ->
         IF d.password # <<>>
         THEN Error("Password authentication failed", <<>>)
         ELSE Error("SSH key authentication failed", <<>>)
    [] OTHER -> Error("Authentication failed", <<>>)

\* An ssh2 Session and what session.authenticated() answers.
Session(a) == [authenticated |-> a]

\* transfer.rs:105-137: the TCP connection is opened; TCP_NODELAY and
\* Session::new follow without another request.  Each failure ends the
\* call.
ConnectTcp(i) ==
  /\ unit[i].pc = "connect"
  /\ \E outcome \in {"refused", "nodelay", "no_session", "ok"} :
       unit' = [unit EXCEPT ![i] =
         IF outcome = "ok"
         THEN [@ EXCEPT !.pc = "c_handshake", !.session = <<Session(FALSE)>>]
         ELSE Failed(@, ConnectError(Dest(i), outcome))]
  /\ Logged(i, <<Op("tcp_connect", <<>>, 0)>>)
  /\ UNCHANGED <<inputs, remote, driver, uploaded>>

\* transfer.rs:141-142: the SSH handshake.
ConnectHandshake(i) ==
  /\ unit[i].pc = "c_handshake"
  /\ \E ok \in BOOLEAN :
       unit' = [unit EXCEPT ![i] =
         IF ok THEN [@ EXCEPT !.pc = "c_auth"]
         ELSE Failed(@, ConnectError(Dest(i), "no_handshake"))]
  /\ Logged(i, <<Op("handshake", <<>>, 0)>>)
  /\ UNCHANGED <<inputs, remote, driver, uploaded>>

\* transfer.rs:144-160: the authentication call.  It returns an error, or
\* returns Ok and leaves the session authenticated or not.
ConnectAuth(i) ==
  /\ unit[i].pc = "c_auth"
  /\ \E ok \in BOOLEAN :
       /\ IF ok
          THEN \E a \in BOOLEAN :
                 unit' = [unit EXCEPT ![i] =
                   [@ EXCEPT !.pc = "c_authenticated",
                             !.session = <<Session(a)>>]]
          ELSE unit' = [unit EXCEPT ![i] =
                 Failed(@, ConnectError(Dest(i), "auth_error"))]
       /\ Logged(i, AuthOps(Dest(i), ok))
  /\ UNCHANGED <<inputs, remote, driver, uploaded>>

\* A connect that returns the session without asking whether it is
\* authenticated.
ConnectReturnUnchecked(u, d) ==
  [u EXCEPT !.pc = "t_sftp"]

\* transfer.rs:162-169 and 37: connect returns Ok(session) when the
\* session is authenticated, and an error otherwise.
ConnectReturn(u, d) ==
  IF u.session = <<Session(TRUE)>>
  THEN [u EXCEPT !.pc = "t_sftp"]
  ELSE Failed(u, ConnectError(d, "unauthenticated"))

\* transfer.rs:162-164: the session is asked whether it is authenticated.
ConnectAuthenticated(i) ==
  /\ unit[i].pc = "c_authenticated"
  /\ unit' = [unit EXCEPT ![i] = ConnectReturn(@, Dest(i))]
  /\ Logged(i, <<Op("authenticated", <<>>, 0)>>)
  /\ UNCHANGED <<inputs, remote, driver, uploaded>>

\* transfer.rs:38-39: open the SFTP channel.
TransferSftp(i) ==
  /\ unit[i].pc = "t_sftp"
  /\ \E ok \in BOOLEAN :
       unit' = [unit EXCEPT ![i] =
         IF ok THEN [@ EXCEPT !.pc = "t_branch"]
         ELSE Failed(@, Error("Failed to initialize SFTP", <<>>))]
  /\ Logged(i, <<Op("sftp", <<>>, 0)>>)
  /\ UNCHANGED <<inputs, remote, driver, uploaded>>

\* An upload_file that creates the remote file without resolving its
\* directory.
UploadBeginNoEnsure(u, local, rpath) ==
  IF Parent(rpath) = <<>>
  THEN Failed(u, Error("Invalid remote path", <<>>))
  ELSE [u EXCEPT !.pc = "u_create",
                 !.cur = [local |-> local, remote |-> rpath,
                          data |-> FileAt(local).data],
                 !.pos = 0, !.buf = <<>>, !.n = 0, !.wr = <<>>]

\* transfer.rs:172-183: upload_file up to its call of ensure_remote_dir.
UploadBegin(u, local, rpath) ==
  IF Parent(rpath) = <<>>
  THEN Failed(u, Error("Invalid remote path", <<>>))
  ELSE [u EXCEPT !.pc = "ensure",
                 !.cur = [local |-> local, remote |-> rpath,
                          data |-> FileAt(local).data],
                 !.estack = <<[dir |-> Parent(rpath)[1], phase |-> "stat"]>>,
                 !.pos = 0, !.buf = <<>>, !.n = 0, !.wr = <<>>]

\* transfer.rs:53-55: the remote path of a single file.
SingleRemotePath(d, path) == Join(d.remote_path, FileName(path)[1])

\* A directory upload that forgets the directory's own name.
TreeRemotePathFlat(d, path, relative) == Join(d.remote_path, relative)

\* transfer.rs:81-83: the remote path of a file found under a directory.
TreeRemotePath(d, path, relative) ==
  Join(Join(d.remote_path, FileName(path)[1]), relative)

\* p lies below the directory d.
Below(p, d) == p # d /\ StripPrefix(p, d) # <<>>

\* The directories the walk of root comes to and cannot read: those at or
\* under the root.  A directory above the root is never read by the walk.
UnreadableUnder(root) ==
  { d \in world.unreadable : StripPrefix(d, root) # <<>> }

\* transfer.rs:59: the entries of the walk that are Err: the directories
\* at or under the root that WalkDir reaches and cannot read.
WalkErrors(root) ==
  { d \in UnreadableUnder(root) :
      \A e \in UnreadableUnder(root) : ~Below(d, e) }

\* transfer.rs:59-63: the regular files WalkDir finds under the root.
\* filter_map(|e| e.ok()) drops the Err entries, and with them everything
\* below a directory that cannot be read.
WalkFiles(root) ==
  { f.p : f \in { g \in world.files :
                   /\ StripPrefix(g.p, root) # <<>>
                   /\ \A d \in UnreadableUnder(root) : ~Below(g.p, d) } }

\* Every order in which a set can be enumerated.
Orders(S) ==
  { s \in [1..Cardinality(S) -> S] :
      \A a, b \in 1..Cardinality(S) : a # b => s[a] # s[b] }

\* A transfer that makes the remote place of the root directory before it
\* walks the directory.
TransferBranchMirrorsRoot(i) ==
  /\ unit[i].pc = "t_branch"
  /\ IF IsFile(world.path)
     THEN /\ unit' = [unit EXCEPT ![i] =
               IF FileName(world.path) = <<>> THEN Panicked(@)
               ELSE IF ToStr(SingleRemotePath(Dest(i), world.path)) = <<>>
               THEN Panicked(@)
               ELSE UploadBegin([@ EXCEPT !.single = TRUE], world.path,
                                SingleRemotePath(Dest(i), world.path))]
          /\ UNCHANGED <<remote, ops>>
     ELSE /\ \E order \in Orders(WalkFiles(world.path)) :
               unit' = [unit EXCEPT ![i] =
                 [@ EXCEPT !.pc = "t_loop", !.files = order]]
          /\ IF FileName(world.path) = <<>>
             THEN UNCHANGED <<remote, ops>>
             ELSE LET dir == Join(Dest(i).remote_path, FileName(world.path)[1])
                      h == Dest(i).host
                  IN /\ Logged(i, <<Op("mkdir", <<dir>>, MkdirMode)>>)
                     /\ remote' = IF MkdirOk(Srv(i), dir)
                                  THEN [remote EXCEPT ![h].dirs = @ \cup {dir}]
                                  ELSE remote
  /\ UNCHANGED <<inputs, driver, uploaded>>

\* transfer.rs:41-74: a file is uploaded by itself, a directory is walked.
TransferBranch(i) ==
  /\ unit[i].pc = "t_branch"
  /\ IF IsFile(world.path)
     THEN unit' = [unit EXCEPT ![i] =
            IF FileName(world.path) = <<>> THEN Panicked(@)
            ELSE IF ToStr(SingleRemotePath(Dest(i), world.path)) = <<>>
            THEN Panicked(@)
            ELSE UploadBegin([@ EXCEPT !.single = TRUE], world.path,
                             SingleRemotePath(Dest(i), world.path))]
     ELSE \E order \in Orders(WalkFiles(world.path)) :
            unit' = [unit EXCEPT ![i] =
              [@ EXCEPT !.pc = "t_loop", !.files = order]]
  /\ UNCHANGED <<inputs, remote, driver, ops, uploaded>>

\* transfer.rs:76-87 and 91: the next entry of the walk, or the end of it.
TransferLoop(i) ==
  /\ unit[i].pc = "t_loop"
  /\ unit' = [unit EXCEPT ![i] =
       IF @.files = <<>> THEN [@ EXCEPT !.pc = "t_finish"]
       ELSE
         LET file_path == Head(@.files)
             relative == StripPrefix(file_path, world.path)
             rest == [@ EXCEPT !.files = Tail(@)]
         IN IF relative = <<>>
            THEN Failed(@, Error("Failed to compute relative path", <<>>))
            ELSE IF FileName(world.path) = <<>> THEN Panicked(@)
            ELSE IF ToStr(TreeRemotePath(Dest(i), world.path, relative[1])) = <<>>
            THEN Panicked(@)
            ELSE UploadBegin(rest, file_path,
                   TreeRemotePath(Dest(i), world.path, relative[1]))]
  /\ UNCHANGED <<inputs, remote, driver, ops, uploaded>>

\* transfer.rs:94-98 and main.rs:83: the statistics, paired with the name.
TransferFinish(i) ==
  /\ unit[i].pc = "t_finish"
  /\ \E secs \in 0..MaxSecs :
       unit' = [unit EXCEPT ![i] =
         Finished(ResOk(Dest(i).name,
                        TransferStats(unit[i].total_bytes, secs)))]
  /\ UNCHANGED <<inputs, remote, driver, ops, uploaded>>

(* ------------------- Transferer::ensure_remote_dir -------------------- *)

\* A frame of ensure_remote_dir returns Ok(()): its caller goes on, which
\* is the frame below or, for the outermost frame, upload_file.
EnsureReturn(u) ==
  [u EXCEPT !.estack = Tail(@),
            !.pc = IF Tail(u.estack) = <<>> THEN "u_create" ELSE "ensure"]

\* A resolver that recurses on dir itself instead of its parent.
EnsureDescendSameDir(stack) ==
  LET dir == Head(stack).dir
      again == <<[dir |-> dir, phase |-> "mkdir"]>> \o Tail(stack)
  IN IF Parent(dir) # <<>>
     THEN <<[dir |-> dir, phase |-> "stat"]>> \o again
     ELSE again

\* A resolver that creates dir before it resolves the parent of dir.
EnsureDescendChildFirst(stack) ==
  LET dir == Head(stack).dir
      again == <<[dir |-> dir, phase |-> "mkdir"]>>
  IN IF Parent(dir) # <<>>
     THEN again \o <<[dir |-> Parent(dir)[1], phase |-> "stat"]>> \o Tail(stack)
     ELSE again \o Tail(stack)

\* The frames after stat found nothing at dir: the parent is resolved
\* first (when there is one), then dir is created.
EnsureDescend(stack) ==
  LET dir == Head(stack).dir
      again == <<[dir |-> dir, phase |-> "mkdir"]>> \o Tail(stack)
  IN IF Parent(dir) # <<>>
     THEN <<[dir |-> Parent(dir)[1], phase |-> "stat"]>> \o again
     ELSE again

\* The mark left in ops when the outermost frame returns Ok(()).
EnsuredMark(stack) ==
  IF Tail(stack) = <<>> THEN <<Op("ensured", <<Head(stack).dir>>, 0)>> ELSE <<>>

\* A resolver that creates the directory it is asked for without looking
\* whether it is there (its ancestors are still looked up).
EnsureStatBlindLeaf(i) ==
  /\ unit[i].pc = "ensure"
  /\ Head(unit[i].estack).phase = "stat"
  /\ LET dir == Head(unit[i].estack).dir
     IN IF StatOk(Srv(i), dir) /\ Len(unit[i].estack) > 1
        THEN /\ unit' = [unit EXCEPT ![i] = EnsureReturn(@)]
             /\ Logged(i, <<Op("stat", <<dir>>, 0)>> \o EnsuredMark(unit[i].estack))
        ELSE /\ unit' = [unit EXCEPT ![i].estack = EnsureDescend(@)]
             /\ Logged(i, <<Op("stat", <<dir>>, 0)>>)
  /\ UNCHANGED <<inputs, remote, driver, uploaded>>

\* transfer.rs:219-231: stat; an existing path ends the call.
EnsureStat(i) ==
  /\ unit[i].pc = "ensure"
  /\ Head(unit[i].estack).phase = "stat"
  /\ LET dir == Head(unit[i].estack).dir
     IN IF StatOk(Srv(i), dir)
        THEN /\ unit' = [unit EXCEPT ![i] = EnsureReturn(@)]
             /\ Logged(i, <<Op("stat", <<dir>>, 0)>> \o EnsuredMark(unit[i].estack))
        ELSE /\ unit' = [unit EXCEPT ![i].estack = EnsureDescend(@)]
             /\ Logged(i, <<Op("stat", <<dir>>, 0)>>)
  /\ UNCHANGED <<inputs, remote, driver, uploaded>>

\* transfer.rs:236-242: mkdir; its failure ends every frame (the `?`s).
EnsureMkdir(i) ==
  /\ unit[i].pc = "ensure"
  /\ Head(unit[i].estack).phase = "mkdir"
  /\ LET dir == Head(unit[i].estack).dir
         h == Dest(i).host
     IN IF MkdirOk(Srv(i), dir)
        THEN /\ remote' = [remote EXCEPT ![h].dirs = @ \cup {dir}]
             /\ unit' = [unit EXCEPT ![i] = EnsureReturn(@)]
             /\ Logged(i, <<Op("mkdir", <<dir>>, MkdirMode)>>
                          \o EnsuredMark(unit[i].estack))
        ELSE /\ unit' = [unit EXCEPT ![i] =
                  Failed(@, Error("Failed to create remote directory", <<dir>>))]
             /\ Logged(i, <<Op("mkdir", <<dir>>, MkdirMode)>>)
             /\ UNCHANGED remote
  /\ UNCHANGED <<inputs, driver, uploaded>>

(* ---------------------- Transferer::upload_file ----------------------- *)

\* transfer.rs:188-198: open the local file, create the remote one.
UploadCreate(i) ==
  /\ unit[i].pc = "u_create"
  /\ LET rpath == unit[i].cur.remote
         h == Dest(i).host
     IN \E opened \in BOOLEAN :
          IF ~opened
          THEN /\ unit' = [unit EXCEPT ![i] =
                    Failed(@, Error("Failed to open local file", <<>>))]
               /\ UNCHANGED <<remote, ops>>
          ELSE /\ Logged(i, <<Op("create", <<rpath>>, 0)>>)
               /\ IF CreateOk(Srv(i), rpath)
                  THEN /\ remote' = [remote EXCEPT ![h].files = @ \cup {rpath}]
                       /\ unit' = [unit EXCEPT ![i].pc = "u_read"]
                  ELSE /\ unit' = [unit EXCEPT ![i] =
                            Failed(@, Error("Failed to create remote file", <<rpath>>))]
                       /\ UNCHANGED remote
  /\ UNCHANGED <<inputs, driver, uploaded>>

\* What upload_file returned for one file, as transfer sees it.
Uploaded(u) ==
  [local |-> u.cur.local, remote |-> u.cur.remote, returned |-> u.n,
   written |-> u.wr]

\* A transfer that keeps the count of the last file only.
UploadReturnOverwrite(u) ==
  [u EXCEPT !.total_bytes = u.n,
            !.wcalls = <<>>,
            !.pc = IF u.single THEN "t_finish" ELSE "t_loop"]

\* transfer.rs:55-57 and 87-88: upload_file returned Ok(n).
UploadReturn(u) ==
  [u EXCEPT !.total_bytes = IF u.single THEN u.n ELSE @ + u.n,
            !.wcalls = <<>>,
            !.pc = IF u.single THEN "t_finish" ELSE "t_loop"]

\* The chunks a read may deliver: at least one byte, at most the buffer.
ReadSizes(u) == 1..Min(BUFFER_SIZE, Len(u.cur.data) - u.pos)

\* transfer.rs:200-205: read the next chunk; a read of 0 bytes ends the
\* loop and upload_file returns its total.
UploadRead(i) ==
  /\ unit[i].pc = "u_read"
  /\ \/ /\ unit' = [unit EXCEPT ![i] =
               Failed(@, Error("Failed to read local file", <<>>))]
        /\ UNCHANGED uploaded
     \/ /\ unit[i].pos = Len(unit[i].cur.data)
        /\ unit' = [unit EXCEPT ![i] = UploadReturn(@)]
        /\ uploaded' = [uploaded EXCEPT ![i] = Append(@, Uploaded(unit[i]))]
     \/ /\ \E bytes_read \in ReadSizes(unit[i]) :
             unit' = [unit EXCEPT ![i] =
               [@ EXCEPT !.buf = SubSeq(unit[i].cur.data, unit[i].pos + 1,
                                          unit[i].pos + bytes_read),
                         !.pos = @ + bytes_read,
                         !.wcalls = <<>>,
                         !.pc = "u_write"]]
        /\ UNCHANGED uploaded
  /\ UNCHANGED <<inputs, remote, driver, ops>>

\* One call of write on the remote file handle that returned Ok(accepted):
\* the bytes offered and the bytes taken.
WriteCall(offered, accepted) == [offered |-> offered, accepted |-> accepted]

\* The bytes the calls have accepted together.
RECURSIVE Accepted(_)
Accepted(calls) ==
  IF calls = <<>> THEN 0 ELSE Head(calls).accepted + Accepted(Tail(calls))

\* A copy loop that counts the buffer's capacity for every chunk.
UploadWriteCountsCapacity(i) ==
  /\ unit[i].pc = "u_write"
  /\ LET done == Accepted(unit[i].wcalls)
         left == Len(unit[i].buf) - done
     IN \/ \E k \in 1..left :
             unit' = [unit EXCEPT ![i] =
               [@ EXCEPT !.wr = @ \o SubSeq(unit[i].buf, done + 1, done + k),
                         !.wcalls = Append(@, WriteCall(left, k)),
                         !.n = IF k = left THEN @ + BUFFER_SIZE ELSE @,
                         !.pc = IF k = left THEN "u_read" ELSE "u_write"]]
        \/ unit' = [unit EXCEPT ![i] =
               Failed(@, Error("Failed to write to remote file", <<>>))]
  /\ Logged(i, <<Op("write", <<unit[i].cur.remote>>, 0)>>)
  /\ UNCHANGED <<inputs, remote, driver, uploaded>>

\* A copy loop that calls write once for every chunk (write, not
\* write_all) and takes the chunk as written.
UploadWriteOnce(i) ==
  /\ unit[i].pc = "u_write"
  /\ LET done == Accepted(unit[i].wcalls)
         left == Len(unit[i].buf) - done
     IN \/ \E k \in 1..left :
             unit' = [unit EXCEPT ![i] =
               [@ EXCEPT !.wr = @ \o SubSeq(unit[i].buf, done + 1, done + k),
                         !.wcalls = Append(@, WriteCall(left, k)),
                         !.n = @ + Len(unit[i].buf),
                         !.pc = "u_read"]]
        \/ unit' = [unit EXCEPT ![i] =
               Failed(@, Error("Failed to write to remote file", <<>>))]
  /\ Logged(i, <<Op("write", <<unit[i].cur.remote>>, 0)>>)
  /\ UNCHANGED <<inputs, remote, driver, uploaded>>

\* transfer.rs:207-209: one call of write made by write_all on what is
\* left of the chunk.  The call accepts some of the bytes offered: when
\* it accepted them all, write_all returns Ok and bytes_read, the length
\* of the chunk, is counted; otherwise write_all calls write again with
\* the rest.  Or the call accepts 0 bytes (ErrorKind::WriteZero) or
\* returns an error, and the error ends the transfer.  wcalls keeps the
\* calls of the write_all until the next read.
UploadWrite(i) ==
  /\ unit[i].pc = "u_write"
  /\ LET done == Accepted(unit[i].wcalls)
         left == Len(unit[i].buf) - done
     IN \/ \E k \in 1..left :
             unit' = [unit EXCEPT ![i] =
               [@ EXCEPT !.wr = @ \o SubSeq(unit[i].buf, done + 1, done + k),
                         !.wcalls = Append(@, WriteCall(left, k)),
                         !.n = IF k = left THEN @ + Len(unit[i].buf) ELSE @,
                         !.pc = IF k = left THEN "u_read" ELSE "u_write"]]
        \/ unit' = [unit EXCEPT ![i] =
               Failed(@, Error("Failed to write to remote file", <<>>))]
  /\ Logged(i, <<Op("write", <<unit[i].cur.remote>>, 0)>>)
  /\ UNCHANGED <<inputs, remote, driver, uploaded>>

(* ---------------------------- specification --------------------------- *)

Thread(i) ==
  \/ TransferExists(i)
  \/ ConnectTcp(i)
  \/ ConnectHandshake(i)
  \/ ConnectAuth(i)
  \/ ConnectAuthenticated(i)
  \/ TransferSftp(i)
  \/ TransferBranch(i)
  \/ TransferLoop(i)
  \/ EnsureStat(i)
  \/ EnsureMkdir(i)
  \/ UploadCreate(i)
  \/ UploadRead(i)
  \/ UploadWrite(i)
  \/ TransferFinish(i)

Next ==
  \/ MainSetup
  \/ MainLoad
  \/ Main
  \/ Spawn
  \/ JoinHandle
  \/ Report
  \/ \E i \in DOMAIN unit : TransferExists(i)
  \/ \E i \in DOMAIN unit : ConnectTcp(i)
  \/ \E i \in DOMAIN unit : ConnectHandshake(i)
  \/ \E i \in DOMAIN unit : ConnectAuth(i)
  \/ \E i \in DOMAIN unit : ConnectAuthenticated(i)
  \/ \E i \in DOMAIN unit : TransferSftp(i)
  \/ \E i \in DOMAIN unit : TransferBranch(i)
  \/ \E i \in DOMAIN unit : TransferLoop(i)
  \/ \E i \in DOMAIN unit : EnsureStat(i)
  \/ \E i \in DOMAIN unit : EnsureMkdir(i)
  \/ \E i \in DOMAIN unit : UploadCreate(i)
  \/ \E i \in DOMAIN unit : UploadRead(i)
  \/ \E i \in DOMAIN unit : UploadWrite(i)
  \/ \E i \in DOMAIN unit : TransferFinish(i)

Spec == Init /\ [][Next]_vars

(* ------------------------------ properties ---------------------------- *)

Over(i) == unit[i].result # <<>>
Res(i) == unit[i].result[1]
Succeeded(i) == Over(i) /\ Res(i).kind = "ok"
Unsuccessful(i) == Over(i) /\ Res(i).kind # "ok"

\* main is past the join loop of an upload run.
Collected == mpc \in {"report", "exited"} /\ destinations # <<>>

InSeq(x, seq) == \E k \in 1..Len(seq) : seq[k] = x

\* Some destination succeeded and some destination failed.
PartialSuccess ==
  /\ \E i \in DOMAIN unit : Succeeded(i)
  /\ \E i \in DOMAIN unit : Unsuccessful(i)

\* C1: every thread is spawned before the first join; the report is built
\* only when every thread has been joined; a running thread can always take
\* its next step, whatever the other threads did; and after the joins every
\* successful destination's statistics are in all_stats and every returned
\* error is in errors.
C1_FailureIsolation ==
  /\ joined > 0 => handles = Len(destinations)
  /\ Collected =>
       /\ joined = Len(destinations)
       /\ \A i \in DOMAIN unit : Over(i)
       /\ \A i \in DOMAIN unit :
            /\ Succeeded(i) =>
                 InSeq([name |-> Dest(i).name, stats |-> Res(i).stats], all_stats)
            /\ Res(i).kind = "err" => InSeq(Res(i).err, errors)
  /\ \A i \in DOMAIN unit :
       unit[i].pc \notin {"unborn", "finished"} => ENABLED Thread(i)

\* C1 witness: A's password is rejected, B uploads the tree d (d/sub/b of
\* one byte and the empty d/sub/c), and both are in the lists main reports
\* from.
C1_Witness ==
  /\ mpc = "exited"
  /\ Len(destinations) = 2
  /\ Over(1) /\ Res(1).err = Error("Password authentication failed", <<>>)
  /\ errors = <<Error("Password authentication failed", <<>>)>>
  /\ Len(all_stats) = 1
  /\ all_stats[1].name = "B"
  /\ all_stats[1].stats.bytes_transferred = 1
  /\ Len(uploaded[2]) = 2

\* C2: the process has an exit status exactly when main is over, and after
\* an upload run the status is 0 exactly when every destination's thread
\* returned Ok; every thread is over by then.
C2_ExitSignal ==
  /\ (exit_code # <<>>) <=> (mpc = "exited")
  /\ (mpc = "exited" /\ destinations # <<>>) =>
       /\ \A i \in DOMAIN unit : Over(i)
       /\ exit_code \in {<<0>>, <<1>>}
       /\ (exit_code = <<0>>) <=> (\A i \in DOMAIN unit : Succeeded(i))

\* C2 witness: two destinations, both successful, exit status 0.
C2_Witness ==
  /\ exit_code = <<0>>
  /\ Len(destinations) = 2
  /\ \A i \in DOMAIN unit : Succeeded(i)

\* A line of stdout gives the statistics of destination i.
StatsPrinted(i) ==
  \E k \in 1..Len(stdout) :
    /\ stdout[k].dest = <<Dest(i).name>>
    /\ stdout[k].stats = <<Res(i).stats>>

\* C3 as claimed: after a partially successful run the bytes and seconds of
\* every successful destination have been printed.
C3_StatsReportedOnPartialSuccess ==
  (mpc = "exited" /\ PartialSuccess) =>
    \A i \in DOMAIN unit : Succeeded(i) => StatsPrinted(i)

\* C3 as amended: after a partially successful run the exit status is 1,
\* every returned error is printed, every successful destination is named
\* in a "Completed upload to" line and has its statistics in all_stats, and
\* no line of output carries statistics; statistics are printed for every
\* destination when none failed.
C3_PartialSuccessReport ==
  /\ (mpc = "exited" /\ PartialSuccess) =>
       /\ exit_code = <<1>>
       /\ \A i \in DOMAIN unit :
            /\ Res(i).kind = "err" =>
                 InSeq(Line(Res(i).err.ctx, <<>>, Res(i).err.arg, <<>>), stderr)
            /\ Succeeded(i) =>
                 /\ InSeq(Line("Completed upload to", <<Dest(i).name>>, <<>>, <<>>),
                          stdout)
                 /\ InSeq([name |-> Dest(i).name, stats |-> Res(i).stats], all_stats)
       /\ \A k \in 1..Len(stdout) : stdout[k].stats = <<>>
       /\ \A k \in 1..Len(stderr) : stderr[k].stats = <<>>
  /\ (mpc = "exited" /\ destinations # <<>>
        /\ \A i \in DOMAIN unit : Succeeded(i)) =>
       \A i \in DOMAIN unit : StatsPrinted(i)

\* C3 witness: the first destination uploaded a file, the second failed,
\* and main has exited.
C3_Witness ==
  /\ mpc = "exited"
  /\ Len(destinations) = 2
  /\ Succeeded(1) /\ Res(1).stats.bytes_transferred > 0
  /\ Unsuccessful(2)

\* C4: each joined thread has added one entry to one list: all_stats holds
\* as many entries as joined threads returned Ok, errors as many as did
\* not, and as many "Thread panicked" entries as joined threads panicked;
\* after the joins the two lists hold one entry per destination.
C4_OneEntryPerDestination ==
  /\ joined <= Len(unit)
  /\ Len(all_stats) = Cardinality({i \in 1..joined : Succeeded(i)})
  /\ Len(errors) = Cardinality({i \in 1..joined : ~Succeeded(i)})
  /\ Cardinality({k \in 1..Len(errors) : errors[k] = Error("Thread panicked", <<>>)})
       = Cardinality({i \in 1..joined : Res(i).kind = "panic"})
  /\ Collected =>
       /\ joined = Len(destinations)
       /\ Len(all_stats) + Len(errors) = Len(destinations)

\* C4 witness: the first thread panicked, the second returned an error,
\* and both are in errors when main exits.
C4_Witness ==
  /\ mpc = "exited"
  /\ Len(destinations) = 2
  /\ Over(1) /\ Res(1).kind = "panic"
  /\ Over(2) /\ Res(2).kind = "err"
  /\ Len(errors) = 2
  /\ errors[1] = Error("Thread panicked", <<>>)

\* C5 as claimed: for every destination that failed, a line of stderr names
\* that destination and the step that failed.
C5_ErrorNamesDestinationAndStep ==
  mpc = "exited" =>
    \A i \in DOMAIN unit :
      Unsuccessful(i) =>
        \E k \in 1..Len(stderr) :
          /\ stderr[k].dest = <<Dest(i).name>>
          /\ stderr[k].text \notin {"Thread panicked", "Errors occurred:"}

\* C6: when the upload root does not exist no thread ever issues a request
\* (no TCP connection, handshake, authentication or SFTP operation), and a
\* thread that is over returned the path error.
C6_MissingRootNoConnection ==
  ~Exists(world.path) =>
    \A i \in DOMAIN unit :
      /\ ops[i] = <<>>
      /\ Over(i) => Res(i) = ResErr(Error("Path does not exist", <<world.path>>))

\* C6 witness: a run against two destinations with a missing root is over,
\* with one path error per destination.
C6_Witness ==
  /\ mpc = "exited"
  /\ ~Exists(world.path)
  /\ Len(destinations) = 2
  /\ errors = <<Error("Path does not exist", <<world.path>>),
                Error("Path does not exist", <<world.path>>)>>

\* C7: every upload_file that returned Ok returned the length of the local
\* file, and the bytes written to the remote file are the local file's
\* bytes, in order.
C7_ByteExactCopy ==
  \A i \in DOMAIN uploaded :
    \A k \in 1..Len(uploaded[i]) :
      /\ uploaded[i][k].returned = Len(FileAt(uploaded[i][k].local).data)
      /\ uploaded[i][k].written = FileAt(uploaded[i][k].local).data

\* C7 witness: a file one byte longer than the buffer has been uploaded.
C7_Witness ==
  \E i \in DOMAIN uploaded :
    \E k \in 1..Len(uploaded[i]) :
      /\ uploaded[i][k].returned = BUFFER_SIZE + 1
      /\ Len(uploaded[i][k].written) = BUFFER_SIZE + 1

\* The remote path C8 states for a local file: the remote base, then the
\* last component of the upload root, then the file's components below the
\* upload root (none for the root itself).
ClaimedRemotePath(d, local) ==
  [abs |-> d.remote_path.abs,
   comps |-> d.remote_path.comps
             \o <<world.path.comps[Len(world.path.comps)]>>
             \o SubSeq(local.comps, Len(world.path.comps) + 1, Len(local.comps))]

\* C8: the remote path of every upload_file call, running or returned, is
\* the remote base, the upload root's name and the file's path below the
\* root; every remote file created is one of these, under the remote base.
C8_RemotePathMapping ==
  \A i \in DOMAIN unit :
    /\ unit[i].pc \in {"ensure", "u_create", "u_read", "u_write"} =>
         unit[i].cur.remote = ClaimedRemotePath(Dest(i), unit[i].cur.local)
    /\ \A k \in 1..Len(uploaded[i]) :
         uploaded[i][k].remote = ClaimedRemotePath(Dest(i), uploaded[i][k].local)
    /\ \A k \in 1..Len(ops[i]) :
         ops[i][k].op = "create" =>
           /\ \E f \in world.files :
                ops[i][k].arg = <<ClaimedRemotePath(Dest(i), f.p)>>
           /\ ops[i][k].arg[1].abs = Dest(i).remote_path.abs
           /\ IsPrefix(Dest(i).remote_path.comps, ops[i][k].arg[1].comps)

\* C8 witness: d/a went to /r/d/a and d/sub/b to /r/d/sub/b.
C8_Witness ==
  \E i \in DOMAIN uploaded :
    /\ \E k \in 1..Len(uploaded[i]) :
         /\ uploaded[i][k].local = Rel(<<"d", "a">>)
         /\ uploaded[i][k].remote = Abs(<<"r", "d", "a">>)
    /\ \E k \in 1..Len(uploaded[i]) :
         /\ uploaded[i][k].local = Rel(<<"d", "sub", "b">>)
         /\ uploaded[i][k].remote = Abs(<<"r", "d", "sub", "b">>)

\* p is q or an ancestor of q.
AtOrAbove(p, q) == p.abs = q.abs /\ IsPrefix(p.comps, q.comps)

\* C9: once a call of ensure_remote_dir(d) has returned Ok in a session,
\* the session issues no mkdir for d or for an ancestor of d, and no later
\* call for d or an ancestor of d fails.
C9_EnsureIdempotent ==
  \A i \in DOMAIN ops :
    \A a \in 1..Len(ops[i]) :
      ops[i][a].op = "ensured" =>
        /\ \A b \in (a + 1)..Len(ops[i]) :
             ops[i][b].op = "mkdir" => ~AtOrAbove(ops[i][b].arg[1], ops[i][a].arg[1])
        /\ (Over(i) /\ Res(i).err.ctx = "Failed to create remote directory") =>
             ~AtOrAbove(Res(i).err.arg[1], ops[i][a].arg[1])

\* C9 witness: a session created d in a first call of ensure_remote_dir(d),
\* and a second call for d has returned Ok.
C9_Witness ==
  \E i \in DOMAIN ops :
    \E m, a, b \in 1..Len(ops[i]) :
      /\ m < a /\ a < b
      /\ ops[i][m].op = "mkdir"
      /\ ops[i][a].op = "ensured"
      /\ ops[i][b].op = "ensured"
      /\ ops[i][m].arg = ops[i][a].arg
      /\ ops[i][b].arg = ops[i][a].arg

\* d and all its ancestors, the root included.
AncestorsAndSelf(d) ==
  { [abs |-> d.abs, comps |-> SubSeq(d.comps, 1, n)] : n \in 0..Len(d.comps) }

\* C10 as claimed: whenever ensure_remote_dir(d) has returned Ok, d and all
\* its ancestors are directories of the server.
C10_EnsuredAreDirectories ==
  \A i \in DOMAIN ops :
    \A k \in 1..Len(ops[i]) :
      ops[i][k].op = "ensured" =>
        AncestorsAndSelf(ops[i][k].arg[1]) \subseteq Srv(i).dirs

(* --------------------------- C11: fail-stop --------------------------- *)

\* The thread is past the enumeration of a directory upload.
Walked(i) ==
  /\ ~IsFile(world.path)
  /\ unit[i].pc \notin {"unborn", "t_exists", "connect", "c_handshake", "c_auth",
                       "c_authenticated", "t_sftp", "t_branch"}

\* C11: a failed step of a destination's transfer ends that transfer with
\* the failure as its result.  For the enumeration of the local tree: once
\* the walk has met an entry it could not read, the thread is over, its
\* result is that error, and it has uploaded nothing.
C11_FailedStepStopsTransfer ==
  \A i \in DOMAIN unit :
    Walked(i) /\ WalkErrors(world.path) # {} =>
      /\ Over(i)
      /\ Res(i).kind = "err"
      /\ uploaded[i] = <<>>

(* ----------------------- C12: one authentication ---------------------- *)

AuthRequests == {"userauth_password", "userauth_pubkey_file"}

\* C12: a thread issues at most one authentication request; it is the
\* password request exactly when the destination has a password, and the
\* public-key request with the configured key path otherwise; and when
\* that request fails the thread ends with its error, no other request
\* following it.
C12_OneAuthMethod ==
  \A i \in DOMAIN unit :
    /\ \A k \in 1..Len(ops[i]) :
         ops[i][k].op \in AuthRequests =>
           /\ IF Dest(i).password # <<>>
              THEN ops[i][k].op = "userauth_password"
              ELSE /\ ops[i][k].op = "userauth_pubkey_file"
                   /\ ops[i][k].arg = <<SshKeyPath>>
           /\ \A j \in 1..Len(ops[i]) :
                ops[i][j].op \in AuthRequests => j = k
    /\ Over(i) /\ Res(i).err.ctx \in {"Password authentication failed",
                                      "SSH key authentication failed"} =>
         /\ ops[i] # <<>>
         /\ ops[i][Len(ops[i])].op \in AuthRequests
         /\ Res(i).err.ctx = IF Dest(i).password # <<>>
                             THEN "Password authentication failed"
                             ELSE "SSH key authentication failed"

\* C12 witness: A has a password, B has none; each made its one
\* authentication request, which the server rejected.
C12_Witness ==
  /\ Len(destinations) = 2
  /\ Dest(1).password # <<>> /\ Dest(2).password = <<>>
  /\ Over(1) /\ Res(1).err.ctx = "Password authentication failed"
  /\ Over(2) /\ Res(2).err.ctx = "SSH key authentication failed"
  /\ ops[1][Len(ops[1])].op = "userauth_password"
  /\ ops[2][Len(ops[2])] = Op("userauth_pubkey_file", <<SshKeyPath>>, 0)

(* ---------------------- C13: concurrent units ------------------------- *)

\* Thread j issued the mkdir that created d.
CreatedBy(j, d) ==
  /\ \E k \in 1..Len(ops[j]) : ops[j][k] = Op("mkdir", <<d>>, MkdirMode)
  /\ d \in Srv(j).dirs
  /\ ~(Over(j) /\ Res(j).err = Error("Failed to create remote directory", <<d>>))

\* C13: the threads of a run do not influence each other's outcome: no
\* thread fails to create a remote directory that another thread of the
\* run created (between the first thread's stat and its mkdir).
C13_NoInterference ==
  \A i, j \in DOMAIN unit :
    /\ i # j
    /\ Over(i)
    /\ Res(i).err.ctx = "Failed to create remote directory"
    => ~CreatedBy(j, Res(i).err.arg[1])

(* ------------------- C14: directory before file ----------------------- *)

\* Position k of a thread's log holds a request of this kind.
IsOp(i, k, op) == ops[i][k].op = op

\* C14: every create request for a remote file comes right after
\* ensure_remote_dir returned Ok for that file's parent directory, in the
\* same thread (the same session).
C14_EnsuredBeforeCreate ==
  \A i \in DOMAIN unit :
    \A k \in 1..Len(ops[i]) :
      IsOp(i, k, "create") =>
        /\ k > 1
        /\ ops[i][k - 1] = Op("ensured", Parent(ops[i][k].arg[1]), 0)

\* C14 witness: a directory upload that created /r/d/a and /r/d/sub/b,
\* each after the resolution of its own parent.
C14_Witness ==
  \E i \in DOMAIN unit :
    /\ Succeeded(i)
    /\ \E k, l \in 2..Len(ops[i]) :
         /\ IsOp(i, k, "create") /\ IsOp(i, l, "create")
         /\ ops[i][k].arg = <<Abs(<<"r", "d", "a">>)>>
         /\ ops[i][k - 1] = Op("ensured", <<Abs(<<"r", "d">>)>>, 0)
         /\ ops[i][l].arg = <<Abs(<<"r", "d", "sub", "b">>)>>
         /\ ops[i][l - 1] = Op("ensured", <<Abs(<<"r", "d", "sub">>)>>, 0)

(* ---------------------- C15: ancestors first -------------------------- *)

Depth(p) == Len(p.comps)

\* Two positions of a thread's log lie in the same call of
\* ensure_remote_dir by upload_file: no call returned between them.
SameCall(i, a, b) ==
  \A k \in a..b : ops[i][k].op # "ensured"

\* C15: ensure_remote_dir creates ancestors first.  The mkdir requests of
\* one call are in strictly increasing depth; a mkdir for a directory that
\* has a parent is sent right after the stat that found the parent or the
\* mkdir that created it, and the parent is on the server when the mkdir
\* is about to be sent; every mkdir carries mode 0755; and a mkdir that
\* failed is the last request of its thread.
C15_AncestorsFirst ==
  \A i \in DOMAIN unit :
    /\ \A b \in 1..Len(ops[i]) :
         IsOp(i, b, "mkdir") =>
           /\ \A a \in 1..(b - 1) :
                IsOp(i, a, "mkdir") /\ SameCall(i, a, b) =>
                  Depth(ops[i][a].arg[1]) < Depth(ops[i][b].arg[1])
           /\ ops[i][b].mode = MkdirMode
           /\ b > 1
           /\ Parent(ops[i][b].arg[1]) # <<>> =>
                /\ ops[i][b - 1].op \in {"stat", "mkdir"}
                /\ ops[i][b - 1].arg = Parent(ops[i][b].arg[1])
    /\ unit[i].pc = "ensure" /\ Head(unit[i].estack).phase = "mkdir"
       /\ Parent(Head(unit[i].estack).dir) # <<>> =>
         StatOk(Srv(i), Parent(Head(unit[i].estack).dir)[1])
    /\ Over(i) /\ Res(i).err.ctx = "Failed to create remote directory" =>
         ops[i][Len(ops[i])] = Op("mkdir", Res(i).err.arg, MkdirMode)

\* C15 witness: one call found /r, then created /r/d and /r/d/sub in that
\* order, with mode 0755, and returned Ok.
C15_Witness ==
  \E i \in DOMAIN unit :
    \E k \in 1..Len(ops[i]) :
      /\ k + 3 <= Len(ops[i])
      /\ ops[i][k] = Op("stat", <<RBase>>, 0)
      /\ ops[i][k + 1] = Op("mkdir", <<RD>>, MkdirMode)
      /\ ops[i][k + 2] = Op("mkdir", <<Abs(<<"r", "d", "sub">>)>>, MkdirMode)
      /\ ops[i][k + 3] = Op("ensured", <<Abs(<<"r", "d", "sub">>)>>, 0)

(* ------------------- C16: paths without a parent ---------------------- *)

\* C16: ensure_remote_dir sends no mkdir for a path that has no parent
\* (the root, or the empty path of a relative base); a call on such a path
\* returns Ok, so no thread ends with the failure to create one.
C16_NoMkdirWithoutParent ==
  \A i \in DOMAIN unit :
    /\ \A k \in 1..Len(ops[i]) :
         IsOp(i, k, "mkdir") => Parent(ops[i][k].arg[1]) # <<>>
    /\ Over(i) /\ Res(i).err.ctx = "Failed to create remote directory" =>
         Parent(Res(i).err.arg[1]) # <<>>

(* ----------------------- C17: connect sequence ------------------------ *)

\* The requests of connect, by their place in the call.
ConnectOrder ==
  << {"tcp_connect"}, {"handshake"}, AuthRequests, {"authenticated"} >>

\* The thread is running past its call of connect.
Connected(i) ==
  unit[i].pc \notin {"unborn", "t_exists", "connect", "c_handshake", "c_auth",
                    "c_authenticated", "finished"}

\* The number of connect requests sent when connect fails with this message.
StepOfError(ctx) ==
  CASE ctx \in {"Failed to connect to server", "Failed to set TCP_NODELAY",
                "Failed to create SSH session"} -> 1
    [] ctx = "SSH handshake failed" -> 2
    [] ctx \in {"Password authentication failed",
                "SSH key authentication failed"} -> 3
    [] ctx = "Authentication failed" -> 4
    [] OTHER -> 0

\* C17: the requests of connect are the first of a thread, each sent once
\* and in the order TCP connect, handshake, authentication, authenticated
\* check, a thread inside connect having sent exactly the steps before the
\* one it is at; a thread gets past connect only with all four sent and a session
\* that reports authenticated; and a connect that fails at a step has sent
\* nothing after that step, the unauthenticated session included.
C17_ConnectSequence ==
  \A i \in DOMAIN unit :
    /\ \A k \in 1..Len(ops[i]) :
         IF k <= Len(ConnectOrder)
         THEN ops[i][k].op \in ConnectOrder[k]
         ELSE \A c \in 1..Len(ConnectOrder) : ops[i][k].op \notin ConnectOrder[c]
    /\ Connected(i) =>
         /\ Len(ops[i]) >= Len(ConnectOrder)
         /\ unit[i].session = <<Session(TRUE)>>
    /\ unit[i].pc = "c_handshake" => Len(ops[i]) = 1
    /\ unit[i].pc = "c_auth" => Len(ops[i]) = 2
    /\ unit[i].pc = "c_authenticated" => Len(ops[i]) = 3
    /\ Over(i) /\ StepOfError(Res(i).err.ctx) > 0 =>
         Len(ops[i]) = StepOfError(Res(i).err.ctx)

\* C17 witness: the first thread's session came back from the
\* authentication call without an error but not authenticated, and was
\* rejected; the second thread's connect returned its session after the
\* four steps.
C17_Witness ==
  /\ Len(destinations) = 2
  /\ Over(1) /\ Res(1).err.ctx = "Authentication failed"
  /\ Len(ops[1]) = 4 /\ ops[1][4].op = "authenticated"
  /\ unit[2].pc = "t_sftp"
  /\ unit[2].session = <<Session(TRUE)>>
  /\ Len(ops[2]) = 4

(* ------------------------- C18: chunk writes -------------------------- *)

\* The write calls of the thread's current or last write_all that
\* accepted fewer bytes than offered.
ShortCalls(i) ==
  { k \in 1..Len(unit[i].wcalls) :
      unit[i].wcalls[k].accepted < unit[i].wcalls[k].offered }

\* The chunks read so far are on the remote handle and counted.
ChunksConsumed(i) ==
  unit[i].pc = "u_read" =>
    /\ unit[i].wr = SubSeq(unit[i].cur.data, 1, unit[i].pos)
    /\ unit[i].n = unit[i].pos

\* C18 as claimed: every chunk read is on the remote handle before the
\* next read, and no write_all with a call that accepted fewer bytes than
\* it was offered returns Ok: the copy never goes on after a short write.
C18_ShortWriteIsFailure ==
  \A i \in DOMAIN unit :
    /\ ChunksConsumed(i)
    /\ unit[i].pc = "u_read" => ShortCalls(i) = {}

\* C18: every chunk read is on the remote handle, whole and counted,
\* before the next read.  The first write call of a write_all offers the
\* whole chunk; after a call that accepted some but not all of the bytes
\* offered the thread is still in write_all, and its next call offers the
\* rest; and the write_all returns Ok, and the copy goes on, when a call
\* has accepted all that was left.
C18_ChunkFullyWritten ==
  \A i \in DOMAIN unit :
    /\ ChunksConsumed(i)
    /\ unit[i].pc = "u_write" =>
         /\ Accepted(unit[i].wcalls) < Len(unit[i].buf)
         /\ unit[i].wr = SubSeq(unit[i].cur.data, 1,
                                 unit[i].pos - Len(unit[i].buf)
                                   + Accepted(unit[i].wcalls))
    /\ unit[i].wcalls # <<>> =>
         /\ unit[i].pc \in {"u_read", "u_write"}
         /\ unit[i].wcalls[1].offered = Len(unit[i].buf)
    /\ \A k \in 1..Len(unit[i].wcalls) :
         LET w == unit[i].wcalls[k] IN
         /\ w.accepted >= 1
         /\ w.accepted <= w.offered
         /\ IF w.accepted < w.offered
            THEN IF k < Len(unit[i].wcalls)
                 THEN unit[i].wcalls[k + 1].offered = w.offered - w.accepted
                 ELSE unit[i].pc = "u_write"
            ELSE k = Len(unit[i].wcalls) /\ unit[i].pc = "u_read"

\* C18 witness: the remote accepted one byte of a chunk of BUFFER_SIZE
\* bytes, the rest went out in a further call, and the whole file is on
\* the remote handle before the read that ends the copy.
C18_Witness ==
  \E i \in DOMAIN unit :
    /\ unit[i].pc = "u_read"
    /\ unit[i].pos = Len(unit[i].cur.data)
    /\ unit[i].wr = unit[i].cur.data
    /\ Len(unit[i].wcalls) >= 2
    /\ unit[i].wcalls[1] = WriteCall(BUFFER_SIZE, 1)
    /\ unit[i].wcalls[2].offered = BUFFER_SIZE - 1

(* --------------------------- C19: byte count -------------------------- *)

\* The files a transfer of the upload root enumerates: the root itself
\* when it is a file, the files of the walk otherwise.
Enumerated ==
  IF IsFile(world.path) THEN {world.path} ELSE WalkFiles(world.path)

RECURSIVE SumLen(_)
SumLen(S) ==
  IF S = {} THEN 0
  ELSE LET p == CHOOSE q \in S : TRUE
       IN Len(FileAt(p).data) + SumLen(S \ {p})

\* C19: the bytes_transferred of a successful destination is the sum of
\* the lengths of the enumerated files, and every enumerated file was
\* uploaded exactly once.
C19_BytesAreSumOfFiles ==
  \A i \in DOMAIN unit :
    Succeeded(i) =>
      /\ Res(i).stats.bytes_transferred = SumLen(Enumerated)
      /\ Len(uploaded[i]) = Cardinality(Enumerated)
      /\ { uploaded[i][k].local : k \in 1..Len(uploaded[i]) } = Enumerated

\* C19 witness: a destination succeeded with the two files of the tree d,
\* of 2 bytes and 1 byte, and reports 3 bytes.
C19_Witness ==
  \E i \in DOMAIN unit :
    /\ Succeeded(i)
    /\ Len(uploaded[i]) = 2
    /\ uploaded[i][1].returned + uploaded[i][2].returned = 3
    /\ uploaded[i][1].returned # uploaded[i][2].returned
    /\ Res(i).stats.bytes_transferred = 3

(* ------------------ C20: ensure_remote_dir terminates ----------------- *)

EnsureRequests == {"stat", "mkdir"}

\* The call of ensure_remote_dir in progress has sent c requests: the last
\* c entries of the thread's log are its stat and mkdir requests, and the
\* entry before them is not one.
CallSent(i, c) ==
  /\ \A j \in (Len(ops[i]) - c + 1)..Len(ops[i]) :
       ops[i][j].op \in EnsureRequests
  /\ c < Len(ops[i]) => ops[i][Len(ops[i]) - c].op \notin EnsureRequests

\* The directory upload_file asked for: the outermost frame's.
Target(i) == unit[i].estack[Len(unit[i].estack)].dir

\* An upper bound of the requests a call still has to send: one mkdir for
\* every frame, and for the frame about to stat, its stat and a stat and a
\* mkdir for every path above it.
Remaining(u) ==
  IF u.pc # "ensure" THEN 0
  ELSE Len(u.estack)
       + (IF Head(u.estack).phase = "stat"
          THEN 2 * Depth(Head(u.estack).dir) + 1 ELSE 0)

\* C20: a call of ensure_remote_dir(d) ends after at most one stat and one
\* mkdir for d and each of the paths above it.  Each frame is for the
\* parent of the frame that called it, so there are at most Depth(d) + 1
\* frames; only the innermost frame has still to stat; the requests sent
\* plus those that can still be sent never exceed 2 * (Depth(d) + 1); and
\* the requests of a call are stats, each of the parent of the path
\* statted before it, followed by mkdirs, each of a child of the path
\* created before it: no path is statted twice or created twice.
C20_EnsureTerminates ==
  \A i \in DOMAIN unit :
    /\ unit[i].pc = "ensure" =>
         /\ unit[i].estack # <<>>
         /\ Len(unit[i].estack) <= Depth(Target(i)) + 1
         /\ \A k \in 1..(Len(unit[i].estack) - 1) :
              /\ Parent(unit[i].estack[k + 1].dir) = <<unit[i].estack[k].dir>>
              /\ unit[i].estack[k + 1].phase = "mkdir"
         /\ \A c \in 0..Len(ops[i]) :
              CallSent(i, c) =>
                c + Remaining(unit[i]) <= 2 * (Depth(Target(i)) + 1)
    /\ \A b \in 2..Len(ops[i]) :
         /\ IsOp(i, b, "stat") /\ ops[i][b - 1].op \in EnsureRequests =>
              /\ IsOp(i, b - 1, "stat")
              /\ Parent(ops[i][b - 1].arg[1]) = ops[i][b].arg
         /\ IsOp(i, b, "mkdir") /\ IsOp(i, b - 1, "mkdir") =>
              Parent(ops[i][b].arg[1]) = ops[i][b - 1].arg

\* C20 witness: nothing but / is on the server; the call for /r/d/sub
\* statted every path down to /, created the three directories and
\* returned: 4 stats and 3 mkdirs for a path of depth 3.
C20_Witness ==
  \E i \in DOMAIN unit :
    \E m \in 8..Len(ops[i]) :
      /\ ops[i][m] = Op("ensured", <<Abs(<<"r", "d", "sub">>)>>, 0)
      /\ \A k \in (m - 7)..(m - 4) : ops[i][k].op = "stat"
      /\ ops[i][m - 4].arg = <<Root>>
      /\ \A k \in (m - 3)..(m - 1) : ops[i][k].op = "mkdir"

(* ------------------- C21: directories of uploaded files --------------- *)

\* The local directory d holds a regular file, directly or transitively.
HoldsFile(d) == \E f \in world.files : Below(f.p, d)

\* d is a local directory at or below the upload root that holds no
\* regular file.
Fileless(d) ==
  /\ d \in world.dirs
  /\ IsPrefix(world.path.comps, d.comps)
  /\ ~HoldsFile(d)

\* The results a transfer can have before it enumerates the local tree:
\* a failure of connect or of the SFTP channel.
FailedBeforeWalk(r) ==
  /\ r.kind = "err"
  /\ StepOfError(r.err.ctx) > 0 \/ r.err.ctx = "Failed to initialize SFTP"

\* C21: remote directories are made only as parents of uploaded files.  A
\* destination whose upload root is a directory tree without a regular
\* file sends no mkdir and no create, counts no byte, and when it got as
\* far as the walk it ends with Ok and 0 bytes transferred; and no thread
\* sends a mkdir for the remote place of a local directory that holds no
\* regular file, nor is a subdirectory of that kind on its server.
C21_DirsOnlyForFiles ==
  LET fileless == { d \in world.dirs : Fileless(d) }
  IN \A i \in DOMAIN unit :
       /\ world.path \in fileless =>
            /\ \A k \in 1..Len(ops[i]) :
                 ops[i][k].op \notin {"mkdir", "create"}
            /\ uploaded[i] = <<>>
            /\ unit[i].total_bytes = 0
            /\ unit[i].pc \in {"unborn", "t_exists", "connect", "c_handshake",
                               "c_auth", "c_authenticated", "t_sftp",
                               "t_branch", "t_loop", "t_finish", "finished"}
            /\ Over(i) =>
                 \/ Succeeded(i) /\ Res(i).stats.bytes_transferred = 0
                 \/ FailedBeforeWalk(Res(i))
       /\ \A d \in fileless :
            /\ \A k \in 1..Len(ops[i]) :
                 ops[i][k].op = "mkdir" =>
                   ops[i][k].arg # <<ClaimedRemotePath(Dest(i), d)>>
            /\ d # world.path =>
                 ClaimedRemotePath(Dest(i), d) \notin Srv(i).dirs

\* C21 witness: the tree d holds the empty directory d/e and nothing else,
\* nothing but / is on the server, and a destination succeeded with 0
\* bytes after the four requests of connect and the opening of the SFTP
\* channel: neither /r nor /r/d was made.
C21_Witness ==
  \E i \in DOMAIN unit :
    /\ world.path = PD /\ world.files = {}
    /\ Rel(<<"d", "e">>) \in world.dirs
    /\ Succeeded(i)
    /\ Res(i).stats.bytes_transferred = 0
    /\ Len(ops[i]) = Len(ConnectOrder) + 1
    /\ Srv(i).dirs = {Root}

\* The other case of C21: the two files of a tree were uploaded beside
\* its empty directory d/e; /r/d/sub was made for a file of d/sub, /r/d/e
\* was not.
C21_WitnessSubdir ==
  \E i \in DOMAIN unit :
    /\ Fileless(Rel(<<"d", "e">>))
    /\ Succeeded(i)
    /\ Len(uploaded[i]) = 2
    /\ InSeq(Op("mkdir", <<Abs(<<"r", "d", "sub">>)>>, MkdirMode), ops[i])
    /\ Abs(<<"r", "d", "e">>) \notin Srv(i).dirs

====
